---- MODULE Spec2Model ----
(***************************************************************************)
(* A model of the tmux messaging CLI (src/tmux_message.py) and of the      *)
(* agent discovery HTTP service (src/agent_discovery.py).                  *)
(*                                                                         *)
(* Text is a sequence of one-character strings, so that the Python string  *)
(* operations the code relies on (strip, split, split with a cap) are      *)
(* computed character by character.                                        *)
(*                                                                         *)
(* Three specifications share the variables:                               *)
(*   SpecReader  get_tmux_panes and get_live_agents on every query result  *)
(*   SpecHttp    one request handled by AgentHandler.do_GET                *)
(*   Spec        one run of main() in the forms --all, --pane and          *)
(*               <name> <dir> <text> (and the usage exit); the --command   *)
(*               and --status forms are left out                           *)
(***************************************************************************)
EXTENDS Integers, Sequences, FiniteSets, TLC

VARIABLES
    q_outcome,      \* how the `tmux list-panes` subprocess ends
    q_stdout,       \* its standard output (text)
    panes_ret,      \* what get_tmux_panes() gave its caller (CLI reader)
    agents_ret,     \* what get_live_agents() gave its caller (service reader)
    h_path,         \* HTTP: the request path
    h_pc,           \* HTTP: position of do_GET
    h_buf,          \* HTTP: the handler's header buffer (not yet on the wire)
    h_wire,         \* HTTP: everything written to the client so far
    h_failed,       \* HTTP: the step of the /agents handler that raised, or "none"
    h_agents,       \* HTTP: the value get_live_agents() returned to do_GET
    argv,           \* CLI: the invocation
    pc,             \* CLI: position of main()
    panes,          \* CLI: the inventory snapshot held by the running function
    queries,        \* CLI: number of inventory queries issued so far
    sender_info,    \* CLI: result of get_current_pane_info()
    message,        \* CLI: the formatted message
    target,         \* CLI: pane id the current send_message_to_pane call addresses
    idx,            \* CLI: loop position of send_to_all_panes
    success_count,  \* CLI: success_count of send_to_all_panes
    attempts,       \* CLI: the send_message_to_pane calls made, <<pane id, result>>
    ops,            \* CLI: the tmux send-keys operations of the current call
    raised,         \* CLI: whether a subprocess call of the current call raised
    send_ret,       \* CLI: return value of the last send_message_to_pane call
    all_ret,        \* CLI: return value of send_to_all_panes
    found,          \* CLI: result of find_agent
    out,            \* CLI: lines printed (stdout and stderr)
    exit_code       \* CLI: exit status of the process, -1 while running

vars == <<q_outcome, q_stdout, panes_ret, agents_ret,
          h_path, h_pc, h_buf, h_wire, h_failed, h_agents,
          argv, pc, panes, queries, sender_info, message, target, idx,
          success_count, attempts, ops, raised, send_ret, all_ret, found,
          out, exit_code>>

readerVars == <<panes_ret, agents_ret>>
httpVars == <<h_path, h_pc, h_buf, h_wire, h_failed, h_agents>>
cliVars == <<argv, pc, panes, queries, sender_info, message, target, idx,
             success_count, attempts, ops, raised, send_ret, all_ret, found,
             out, exit_code>>

\* Longest query output enumerated character by character.
MaxLen == 6
\* Longest query output enumerated for the HTTP handler.
MaxHttpLen == 3
\* Largest number of panes of an enumerated multiplexer state.
MaxPanes == 3

\* Python's None, and an optional value x, as sequences of length 0 and 1
None == <<>>
Some(x) == <<x>>

-----------------------------------------------------------------------------
(* Python string operations *)

Whitespace == {" ", "\t", "\n", "\r"}

RECURSIVE LStrip(_)
LStrip(s) ==
    IF s # <<>> /\ Head(s) \in Whitespace THEN LStrip(Tail(s)) ELSE s

RECURSIVE RStrip(_)
RStrip(s) ==
    IF s # <<>> /\ s[Len(s)] \in Whitespace
    THEN RStrip(SubSeq(s, 1, Len(s) - 1))
    ELSE s

\* str.strip()
Strip(s) == RStrip(LStrip(s))

\* index of the first occurrence of c in s, 0 when there is none
FirstIndex(s, c) ==
    IF \E i \in 1..Len(s) : s[i] = c
    THEN CHOOSE i \in 1..Len(s) : s[i] = c /\ \A j \in 1..(i - 1) : s[j] # c
    ELSE 0

\* str.split(sep, maxsplit); maxsplit = -1 is str.split(sep)
RECURSIVE SplitMax(_, _, _)
SplitMax(s, sep, maxsplit) ==
    LET i == FirstIndex(s, sep) IN
    IF maxsplit = 0 \/ i = 0
    THEN <<s>>
    ELSE <<SubSeq(s, 1, i - 1)>>
         \o SplitMax(SubSeq(s, i + 1, Len(s)), sep, maxsplit - 1)

Split(s, sep) == SplitMax(s, sep, -1)

-----------------------------------------------------------------------------
(* The multiplexer query: subprocess.run(['tmux', 'list-panes', ...]) *)

\* subprocess.run returns (exit status 0 or not) or raises.  TimeoutExpired
\* is raised by a run that was given a timeout (the service's reader); for the
\* CLI reader it stands for an exception of that class reaching its handler.
QueryFailures == {"nonzero", "not_found", "timeout", "other_exception"}
QueryRaises == {"not_found", "timeout", "other_exception"}

\* Python's except clauses: which exception class catches which outcome.
Catches(class, exc) ==
    \/ class = "Exception" /\ exc \in QueryRaises
    \/ class = "FileNotFoundError" /\ exc = "not_found"
    \/ class = "TimeoutExpired" /\ exc = "timeout"

\* the outcome of a call, as its caller sees it
Returned(v) == [called |-> TRUE, raised |-> FALSE, value |-> v]
Propagated == [called |-> TRUE, raised |-> TRUE, value |-> <<>>]
Pending == [called |-> FALSE, raised |-> FALSE, value |-> <<>>]

\* the first clause of `clauses` that catches exc decides; none: exc propagates
HandledBy(clauses, exc) == \E k \in 1..Len(clauses) : Catches(clauses[k], exc)

-----------------------------------------------------------------------------
(* tmux_message.get_tmux_panes *)

ParsePanes(stdout) ==
    LET lines == Split(Strip(stdout), "\n")
        Parts(k) == SplitMax(lines[k], ":", 2)
        valid == SelectSeq([k \in 1..Len(lines) |-> k],
                           LAMBDA k : lines[k] # <<>> /\ Len(Parts(k)) = 3)
    IN [n \in 1..Len(valid) |->
            [pane_id |-> Parts(valid[n])[1],
             command |-> Parts(valid[n])[2],
             path    |-> Parts(valid[n])[3]]]

GetTmuxPanesClauses == <<"Exception">>

GetTmuxPanes(outcome, stdout) ==
    IF outcome \in QueryRaises
    THEN IF HandledBy(GetTmuxPanesClauses, outcome)
         THEN Returned(<<>>)
         ELSE Propagated
    ELSE IF outcome # "ok"
         THEN Returned(<<>>)
         ELSE Returned(ParsePanes(stdout))

-----------------------------------------------------------------------------
(* agent_discovery.detect_agents and get_live_agents *)

EmptyMap == [k \in {} |-> <<>>]

\* agents[cmd].append(entry), creating agents[cmd] = [] first when absent
AddAgent(agents, cmd, entry) ==
    LET base == IF cmd \in DOMAIN agents THEN agents ELSE (cmd :> <<>>) @@ agents
    IN [base EXCEPT ![cmd] = Append(@, entry)]

RECURSIVE DetectLoop(_, _, _)
DetectLoop(lines, k, agents) ==
    IF k > Len(lines)
    THEN agents
    ELSE LET line == lines[k]
             parts == SplitMax(line, ":", 2)
         IN IF Strip(line) # <<>> /\ Len(parts) = 3
            THEN DetectLoop(lines, k + 1,
                     AddAgent(agents, parts[2],
                              [pane    |-> parts[1],
                               path    |-> Strip(parts[3]),
                               command |-> parts[2]]))
            ELSE DetectLoop(lines, k + 1, agents)

DetectAgents(tmux_output) ==
    DetectLoop(Split(Strip(tmux_output), "\n"), 1, EmptyMap)

\* a handler chain without the final catch-all
GetLiveAgentsClausesNoCatchAll == <<"TimeoutExpired", "FileNotFoundError">>

GetLiveAgentsClauses == <<"TimeoutExpired", "FileNotFoundError", "Exception">>

GetLiveAgents(outcome, stdout) ==
    IF outcome \in QueryRaises
    THEN IF HandledBy(GetLiveAgentsClauses, outcome)
         THEN Returned(EmptyMap)
         ELSE Propagated
    ELSE IF outcome = "ok"
         THEN Returned(DetectAgents(stdout))
         ELSE Returned(EmptyMap)

-----------------------------------------------------------------------------
(* Reader specification: both readers applied to every query result *)

Chars == {"a", ":", " ", "\n"}
Outputs == UNION {[1..n -> Chars] : n \in 0..MaxLen}

\* a failed query hands no output to the parser
QueryResults ==
    {[outcome |-> "ok", stdout |-> s] : s \in Outputs}
    \cup {[outcome |-> o, stdout |-> <<>>] : o \in QueryFailures}

HttpIdle ==
    /\ h_path = None /\ h_pc = "idle" /\ h_buf = <<>> /\ h_wire = <<>>
    /\ h_failed = "none" /\ h_agents = Pending

CliIdle ==
    /\ argv = <<>> /\ pc = "idle" /\ panes = <<>> /\ queries = 0
    /\ sender_info = None /\ message = <<>> /\ target = None /\ idx = 0
    /\ success_count = 0 /\ attempts = <<>> /\ ops = <<>> /\ raised = FALSE
    /\ send_ret = None /\ all_ret = None /\ found = None
    /\ out = <<>> /\ exit_code = -1

ReaderInit ==
    /\ \E q \in QueryResults : q_outcome = q.outcome /\ q_stdout = q.stdout
    /\ panes_ret = Pending
    /\ agents_ret = Pending
    /\ HttpIdle
    /\ CliIdle

CallGetTmuxPanes ==
    /\ panes_ret = Pending
    /\ panes_ret' = GetTmuxPanes(q_outcome, q_stdout)
    /\ UNCHANGED <<q_outcome, q_stdout, agents_ret, httpVars, cliVars>>

CallGetLiveAgents ==
    /\ agents_ret = Pending
    /\ agents_ret' = GetLiveAgents(q_outcome, q_stdout)
    /\ UNCHANGED <<q_outcome, q_stdout, panes_ret, httpVars, cliVars>>

ReaderNext == CallGetTmuxPanes \/ CallGetLiveAgents

SpecReader == ReaderInit /\ [][ReaderNext]_vars

-----------------------------------------------------------------------------
(* What the query output says, read off the raw text by character position *)

RawLines(stdout) == Split(stdout, "\n")

ColonAt(line) == {i \in 1..Len(line) : line[i] = ":"}
HasTwoColons(line) == Cardinality(ColonAt(line)) >= 2
FirstColon(line) == CHOOSE i \in ColonAt(line) : \A j \in ColonAt(line) : i <= j
SecondColon(line) ==
    CHOOSE i \in ColonAt(line) \ {FirstColon(line)} :
        \A j \in ColonAt(line) \ {FirstColon(line)} : i <= j

Field1(line) == SubSeq(line, 1, FirstColon(line) - 1)
Field2(line) == SubSeq(line, FirstColon(line) + 1, SecondColon(line) - 1)
Field3(line) == SubSeq(line, SecondColon(line) + 1, Len(line))

ValidLines(stdout) == SelectSeq(RawLines(stdout), HasTwoColons)

\* one Pane per valid line, fields unchanged
LinePanes(stdout) ==
    LET ls == ValidLines(stdout) IN
    [n \in 1..Len(ls) |->
        [pane_id |-> Field1(ls[n]), command |-> Field2(ls[n]), path |-> Field3(ls[n])]]

\* one /agents entry per valid line, fields unchanged
LineEntries(stdout) ==
    LET ls == ValidLines(stdout) IN
    [n \in 1..Len(ls) |->
        [pane |-> Field1(ls[n]), path |-> Field3(ls[n]), command |-> Field2(ls[n])]]

\* mapping m groups the entries es by command, in order, with no empty group
GroupsByCommand(m, es) ==
    /\ DOMAIN m = {es[n].command : n \in 1..Len(es)}
    /\ \A k \in DOMAIN m : m[k] = SelectSeq(es, LAMBDA e : e.command = k)

\* C5: for a query that exits 0, get_tmux_panes returns exactly one Pane per
\* line with at least two ':', in line order, with id, command and path equal
\* to the line's three ':'-capped fields unchanged (whitespace included).
C5_PanesAreTheLinesFields ==
    (panes_ret.called /\ q_outcome = "ok")
        => (~panes_ret.raised /\ panes_ret.value = LinePanes(q_stdout))

\* C6: whatever way the query fails (binary not found, non-zero exit, timeout,
\* any other exception), neither reader raises and each returns its empty
\* collection; no reader raises on a successful query either.
C6_ReadersNeverRaise ==
    /\ panes_ret.called =>
          /\ ~panes_ret.raised
          /\ q_outcome \in QueryFailures => panes_ret.value = <<>>
    /\ agents_ret.called =>
          /\ ~agents_ret.raised
          /\ q_outcome \in QueryFailures => agents_ret.value = EmptyMap

C6_Witness ==
    /\ q_outcome = "other_exception"
    /\ panes_ret.called /\ panes_ret.value = <<>>
    /\ agents_ret.called /\ agents_ret.value = EmptyMap

\* C9: the agents mapping of get_live_agents groups, by command and in line
\* order, one entry per valid line whose pane, command and path equal the
\* line's three fields unchanged; a failed or empty query gives the empty
\* mapping.
C9_AgentsPartitionLinesUnchanged ==
    agents_ret.called =>
        /\ ~agents_ret.raised
        /\ q_outcome = "ok" =>
              GroupsByCommand(agents_ret.value, LineEntries(q_stdout))
        /\ q_outcome # "ok" => agents_ret.value = EmptyMap

-----------------------------------------------------------------------------
(* agent_discovery.AgentHandler.do_GET                                     *)
(*                                                                         *)
(* BaseHTTPRequestHandler keeps the status line and the headers in a       *)
(* buffer: send_response and send_header append to it, end_headers appends *)
(* the blank line and writes the buffer to the client.  wfile.write writes *)
(* to the client at once.                                                  *)

Item(kind, text) == [kind |-> kind, text |-> text]

SendResponse(buf, code) ==
    buf \o <<Item("status", code), Item("header", "Server"), Item("header", "Date")>>
SendHeader(buf, name) == Append(buf, Item("header", name))
\* end_headers: what reaches the client
EndHeaders(wire, buf) == wire \o Append(buf, Item("blank", ""))

HttpPaths == {"/agents", "/health", "/other"}
HttpQueryResults == {q \in QueryResults : Len(q.stdout) <= MaxHttpLen}

HttpInit ==
    /\ \E q \in HttpQueryResults : q_outcome = q.outcome /\ q_stdout = q.stdout
    /\ panes_ret = Pending /\ agents_ret = Pending
    /\ h_path \in HttpPaths
    /\ h_pc = "start" /\ h_buf = <<>> /\ h_wire = <<>>
    /\ h_failed = "none" /\ h_agents = Pending
    /\ CliIdle

HttpFrame == UNCHANGED <<q_outcome, q_stdout, readerVars, cliVars, h_path>>

\* a call inside the try block raises: control goes to the except clause
Raise(step) ==
    /\ h_path = "/agents"
    /\ h_pc = step
    /\ h_failed' = step
    /\ h_pc' = "except"
    /\ UNCHANGED <<h_buf, h_wire, h_agents>>
    /\ HttpFrame

AgentsDispatch ==
    /\ h_path = "/agents" /\ h_pc = "start"
    /\ h_pc' = "send_response"
    /\ UNCHANGED <<h_buf, h_wire, h_failed, h_agents>>
    /\ HttpFrame

\* line 76
AgentsSendResponse ==
    \/ Raise("send_response")
    \/ /\ h_path = "/agents" /\ h_pc = "send_response"
       /\ h_buf' = SendResponse(h_buf, "200")
       /\ h_pc' = "send_header_type"
       /\ UNCHANGED <<h_wire, h_failed, h_agents>>
       /\ HttpFrame

\* line 77
AgentsSendHeaderType ==
    \/ Raise("send_header_type")
    \/ /\ h_path = "/agents" /\ h_pc = "send_header_type"
       /\ h_buf' = SendHeader(h_buf, "Content-type")
       /\ h_pc' = "send_header_cors"
       /\ UNCHANGED <<h_wire, h_failed, h_agents>>
       /\ HttpFrame

\* line 78
AgentsSendHeaderCors ==
    \/ Raise("send_header_cors")
    \/ /\ h_path = "/agents" /\ h_pc = "send_header_cors"
       /\ h_buf' = SendHeader(h_buf, "Access-Control-Allow-Origin")
       /\ h_pc' = "end_headers"
       /\ UNCHANGED <<h_wire, h_failed, h_agents>>
       /\ HttpFrame

\* line 79
AgentsEndHeaders ==
    \/ Raise("end_headers")
    \/ /\ h_path = "/agents" /\ h_pc = "end_headers"
       /\ h_wire' = EndHeaders(h_wire, h_buf)
       /\ h_buf' = <<>>
       /\ h_pc' = "get_live_agents"
       /\ UNCHANGED <<h_failed, h_agents>>
       /\ HttpFrame

\* lines 81-85: get_live_agents() handles every exception of the query itself
AgentsReadInventory ==
    /\ h_path = "/agents" /\ h_pc = "get_live_agents"
    /\ h_agents' = GetLiveAgents(q_outcome, q_stdout)
    /\ IF h_agents'.raised
       THEN h_failed' = "get_live_agents" /\ h_pc' = "except"
       ELSE h_failed' = h_failed /\ h_pc' = "dumps"
    /\ UNCHANGED <<h_buf, h_wire>>
    /\ HttpFrame

\* line 86, json.dumps(data, indent=2).encode()
AgentsSerialise ==
    \/ Raise("dumps")
    \/ /\ h_path = "/agents" /\ h_pc = "dumps"
       /\ h_pc' = "write"
       /\ UNCHANGED <<h_buf, h_wire, h_failed, h_agents>>
       /\ HttpFrame

\* line 86, self.wfile.write(...)
AgentsWrite ==
    \/ Raise("write")
    \/ /\ h_path = "/agents" /\ h_pc = "write"
       /\ h_wire' = Append(h_wire, Item("body", "agents"))
       /\ h_pc' = "done"
       /\ UNCHANGED <<h_buf, h_failed, h_agents>>
       /\ HttpFrame

\* lines 87-90
AgentsExcept ==
    /\ h_path = "/agents" /\ h_pc = "except"
    /\ h_wire' = EndHeaders(h_wire, SendResponse(h_buf, "500"))
    /\ h_buf' = <<>>
    /\ h_pc' = "done"
    /\ UNCHANGED <<h_failed, h_agents>>
    /\ HttpFrame

\* lines 92-101
Health ==
    /\ h_path = "/health" /\ h_pc = "start"
    /\ h_wire' = Append(EndHeaders(h_wire,
                     SendHeader(SendResponse(h_buf, "200"), "Content-type")),
                     Item("body", "health"))
    /\ h_buf' = <<>>
    /\ h_pc' = "done"
    /\ UNCHANGED <<h_failed, h_agents>>
    /\ HttpFrame

\* lines 103-111
NotFound ==
    /\ h_path \notin {"/agents", "/health"} /\ h_pc = "start"
    /\ h_wire' = Append(EndHeaders(h_wire,
                     SendHeader(SendResponse(h_buf, "404"), "Content-type")),
                     Item("body", "not_found"))
    /\ h_buf' = <<>>
    /\ h_pc' = "done"
    /\ UNCHANGED <<h_failed, h_agents>>
    /\ HttpFrame

HttpNext ==
    \/ AgentsDispatch
    \/ AgentsSendResponse
    \/ AgentsSendHeaderType
    \/ AgentsSendHeaderCors
    \/ AgentsEndHeaders
    \/ AgentsReadInventory
    \/ AgentsSerialise
    \/ AgentsWrite
    \/ AgentsExcept
    \/ Health
    \/ NotFound

SpecHttp == HttpInit /\ [][HttpNext]_vars

(* The response as the client reads it *)

\* the status line the client parses: the first thing on the wire
ClientStatus(wire) == IF wire # <<>> THEN wire[1].text ELSE ""
BlankAt(wire) == {i \in 1..Len(wire) : wire[i].kind = "blank"}
\* everything after the first blank line is body to the client
ClientBody(wire) ==
    IF BlankAt(wire) = {} THEN <<>>
    ELSE SubSeq(wire, 1 + (CHOOSE i \in BlankAt(wire) : \A j \in BlankAt(wire) : i <= j),
                Len(wire))

\* C4: when a step of the GET /agents handler raised, the client receives
\* status 500 and an empty body, and nothing of the success path (no 200
\* status line, no success header, no body bytes) was emitted before it.
C4_FailureGives500EmptyBody ==
    (h_path = "/agents" /\ h_pc = "done" /\ h_failed # "none")
        => /\ ClientStatus(h_wire) = "500"
           /\ ClientBody(h_wire) = <<>>
           /\ \A i \in 1..Len(h_wire) :
                 /\ h_wire[i] # Item("status", "200")
                 /\ h_wire[i].text \notin {"Content-type", "Access-Control-Allow-Origin"}
                 /\ h_wire[i].kind # "body"

-----------------------------------------------------------------------------
(* tmux_message: the CLI *)

Digits == <<"1", "2", "3", "4", "5", "6", "7", "8", "9">>
PaneId(k) == <<"%", Digits[k]>>
Commands == {<<"c">>, <<"n">>}
Paths == {<<"/", "h">>, <<"/", "t">>}

\* The multiplexer's panes: pane k has id %k; command and path are free.
Inventories == UNION {[1..n -> Commands \X Paths] : n \in 0..MaxPanes}

\* '#{pane_id}:#{pane_current_command}:#{pane_current_path}', one line per pane
RECURSIVE FormatPanes(_, _)
FormatPanes(inv, k) ==
    IF k > Len(inv) THEN <<>>
    ELSE PaneId(k) \o <<":">> \o inv[k][1] \o <<":">> \o inv[k][2] \o <<"\n">>
         \o FormatPanes(inv, k + 1)

\* the CLI passes no timeout to subprocess.run, so the query cannot time out
CliQueryOutcomes == {"ok", "nonzero", "not_found", "other_exception"}

Body == <<"h", "i">>

Invocation(form, pane_id, app_name, target_dir) ==
    [form |-> form, pane_id |-> pane_id, app_name |-> app_name,
     target_dir |-> target_dir, text |-> Body]

\* tmux-message --all <text> | --pane <id> <text> | <name> <dir> <text> | (nothing)
Invocations ==
    {Invocation("all", <<>>, <<>>, <<>>), Invocation("usage", <<>>, <<>>, <<>>)}
    \cup {Invocation("pane", PaneId(k), <<>>, <<>>) : k \in 1..(MaxPanes + 1)}
    \cup {Invocation("logical", <<>>, c, d) : c \in Commands, d \in Paths}

Line(stream, text, count, total) ==
    [stream |-> stream, text |-> text, count |-> count, total |-> total]

(* find_agent *)

\* a lookup that compares the command only
RECURSIVE FindByCommandOnly(_, _, _)
FindByCommandOnly(ps, app_name, target_dir) ==
    IF ps = <<>> THEN None
    ELSE IF Head(ps).command = app_name
         THEN Some(Head(ps))
         ELSE FindByCommandOnly(Tail(ps), app_name, target_dir)

RECURSIVE FindAgent(_, _, _)
FindAgent(ps, app_name, target_dir) ==
    IF ps = <<>> THEN None
    ELSE IF Head(ps).command = app_name /\ Head(ps).path = target_dir
         THEN Some(Head(ps))
         ELSE FindAgent(Tail(ps), app_name, target_dir)

(* get_current_pane_info and format_message_with_metadata *)

\* results of `tmux display-message -p ...`: a well-formed line, a malformed
\* line, a non-zero exit, an exception
DisplayResults ==
    {[outcome |-> "ok", stdout |-> <<"%", "0", ":", "s", ":", "/", "\n">>],
     [outcome |-> "ok", stdout |-> <<"x", "\n">>],
     [outcome |-> "nonzero", stdout |-> <<>>],
     [outcome |-> "other_exception", stdout |-> <<>>]}

GetCurrentPaneInfo(outcome, stdout) ==
    LET parts == SplitMax(Strip(stdout), ":", 2) IN
    IF outcome = "ok" /\ Len(parts) = 3
    THEN Some([pane_id |-> parts[1], command |-> parts[2], path |-> parts[3]])
    ELSE None

FormatMessageWithMetadata(msg, sender) ==
    IF sender = None THEN msg
    ELSE <<"[", "F", "R", "O", "M", ":", " ">> \o sender[1].command
         \o <<" ", "i", "n", " ">> \o sender[1].path
         \o <<" ", "(", "p", "a", "n", "e", " ">> \o sender[1].pane_id
         \o <<")", "]", "\n">> \o msg

(* send_message_to_pane *)

\* a send that needs both submit signals to succeed
SendResultBothSubmits(rc1, rc2, rc3) == rc1 = 0 /\ (rc2 = 0 /\ rc3 = 0)

\* line 132
SendResult(rc1, rc2, rc3) == rc1 = 0 /\ (rc2 = 0 \/ rc3 = 0)

\* a send that gives up as soon as an operation reports a failure
AfterOpStopOnFailure(step, rc) ==
    IF rc # 0 THEN "send_return"
    ELSE IF step = "send_keys" THEN "enter1"
    ELSE IF step = "enter1" THEN "enter2"
    ELSE "send_return"

\* lines 114-130: the next operation follows whatever the exit status was
AfterOp(step, rc) ==
    IF step = "send_keys" THEN "enter1"
    ELSE IF step = "enter1" THEN "enter2"
    ELSE "send_return"

\* the argument of the send-keys operation issued at `step`
KeysOf(step, msg) == IF step = "send_keys" THEN msg ELSE <<"C-m">>

(* send_to_all_panes *)

\* a loop that stops at the first pane whose delivery failed
LoopContinuesUntilFailure(i, n, ok) == i < n /\ ok

\* line 147: the loop runs over every pane of the snapshot
LoopContinues(i, n, ok) == i < n

\* lines 148-149
CountAfter(count, ok) == IF ok THEN count + 1 ELSE count

\* a return value that is true whenever the loop ran
AllResultAlwaysTrue(count) == count >= 0

\* line 152
AllResult(count) == count > 0

\* line 144
AllResultNoPanes == FALSE

-----------------------------------------------------------------------------
(* CLI specification: one invocation of main() *)

CliInit ==
    /\ \E inv \in Inventories, o \in CliQueryOutcomes :
          /\ q_outcome = o
          /\ q_stdout = IF o = "ok" THEN FormatPanes(inv, 1) ELSE <<>>
    /\ panes_ret = Pending /\ agents_ret = Pending
    /\ HttpIdle
    /\ argv \in Invocations
    /\ pc = "main" /\ panes = <<>> /\ queries = 0
    /\ sender_info = None /\ message = <<>> /\ target = None /\ idx = 0
    /\ success_count = 0 /\ attempts = <<>> /\ ops = <<>> /\ raised = FALSE
    /\ send_ret = None /\ all_ret = None /\ found = None
    /\ out = <<>> /\ exit_code = -1

CliFrame == UNCHANGED <<q_outcome, q_stdout, readerVars, httpVars, argv>>

\* lines 199-201 and 274-276: no recognisable form
Usage ==
    /\ pc = "main" /\ argv.form = "usage"
    /\ out' = Append(out, Line("stdout", "usage", 0, 0))
    /\ exit_code' = 1
    /\ pc' = "done"
    /\ UNCHANGED <<panes, queries, sender_info, message, target, idx,
                   success_count, attempts, ops, raised, send_ret, all_ret, found>>
    /\ CliFrame

\* lines 204-207 and 211-215: sender info and formatting, then the send
PrepareDirect ==
    /\ pc = "main" /\ argv.form \in {"all", "pane"}
    /\ \E d \in DisplayResults :
          sender_info' = GetCurrentPaneInfo(d.outcome, d.stdout)
    /\ message' = FormatMessageWithMetadata(argv.text, sender_info')
    /\ IF argv.form = "pane"
       THEN /\ target' = argv.pane_id
            /\ pc' = "send_keys"
       ELSE /\ target' = target
            /\ pc' = "send_to_all"
    /\ ops' = <<>> /\ raised' = FALSE
    /\ UNCHANGED <<panes, queries, idx, success_count, attempts, send_ret,
                   all_ret, found, out, exit_code>>
    /\ CliFrame

\* lines 248-256: find_agent, and the exit when it finds nothing
ResolveLogical ==
    /\ pc = "main" /\ argv.form = "logical"
    /\ LET r == GetTmuxPanes(q_outcome, q_stdout) IN
          /\ ~r.raised
          /\ panes' = r.value
          /\ found' = FindAgent(r.value, argv.app_name, argv.target_dir)
    /\ queries' = queries + 1
    /\ IF found' = None
       THEN /\ out' = Append(out, Line("stderr", "Error: No agent found", 0, 0))
            /\ exit_code' = 1
            /\ pc' = "done"
       ELSE /\ out' = out
            /\ exit_code' = exit_code
            /\ pc' = "sender"
    /\ UNCHANGED <<sender_info, message, target, idx, success_count, attempts,
                   ops, raised, send_ret, all_ret>>
    /\ CliFrame

\* lines 259-265
PrepareLogical ==
    /\ pc = "sender" /\ argv.form = "logical"
    /\ \E d \in DisplayResults :
          sender_info' = GetCurrentPaneInfo(d.outcome, d.stdout)
    /\ message' = FormatMessageWithMetadata(argv.text, sender_info')
    /\ target' = found[1].pane_id
    /\ ops' = <<>> /\ raised' = FALSE
    /\ pc' = "send_keys"
    /\ UNCHANGED <<panes, queries, idx, success_count, attempts, send_ret,
                   all_ret, found, out, exit_code>>
    /\ CliFrame

\* one subprocess.run(['tmux', 'send-keys', '-t', pane_id, ...]) of
\* send_message_to_pane: it exits with a status, or it raises
SendOp(step) ==
    /\ pc = step
    /\ \/ \E rc \in {0, 1} :
             /\ ops' = Append(ops, [pane |-> target, keys |-> KeysOf(step, message),
                                    rc |-> rc])
             /\ pc' = AfterOp(step, rc)
             /\ raised' = raised
       \/ /\ raised' = TRUE
          /\ ops' = ops
          /\ pc' = "send_return"
    /\ UNCHANGED <<panes, queries, sender_info, message, target, idx,
                   success_count, attempts, send_ret, all_ret, found, out,
                   exit_code>>
    /\ CliFrame

SendKeys == SendOp("send_keys")
Enter1 == SendOp("enter1")
Enter2 == SendOp("enter2")

\* line 132, or lines 134-136 when a call raised
SendReturn ==
    /\ pc = "send_return"
    \* ops holds the three operations unless one of them raised
    /\ LET r == IF raised \/ Len(ops) < 3 THEN FALSE
                ELSE SendResult(ops[1].rc, ops[2].rc, ops[3].rc)
       IN /\ send_ret' = Some(r)
          /\ attempts' = Append(attempts, [pane |-> target, ok |-> r])
          /\ out' = IF raised
                    THEN Append(out, Line("stderr", "Error sending message to pane", 0, 0))
                    ELSE out
    /\ pc' = "after_send"
    /\ UNCHANGED <<panes, queries, sender_info, message, target, idx,
                   success_count, ops, raised, all_ret, found, exit_code>>
    /\ CliFrame

\* lines 141-147: the inventory query of send_to_all_panes and the first call
SendToAllStart ==
    /\ pc = "send_to_all"
    /\ LET r == GetTmuxPanes(q_outcome, q_stdout) IN
          /\ ~r.raised
          /\ panes' = r.value
    /\ queries' = queries + 1
    /\ IF panes' = <<>>
       THEN /\ out' = Append(out, Line("stderr", "No tmux panes found", 0, 0))
            /\ all_ret' = Some(AllResultNoPanes)
            /\ exit_code' = IF AllResultNoPanes THEN 0 ELSE 1
            /\ pc' = "done"
            /\ UNCHANGED <<idx, target>>
       ELSE /\ idx' = 1
            /\ target' = panes'[1].pane_id
            /\ pc' = "send_keys"
            /\ UNCHANGED <<out, all_ret, exit_code>>
    /\ success_count' = 0
    /\ ops' = <<>> /\ raised' = FALSE
    /\ UNCHANGED <<sender_info, message, attempts, send_ret, found>>
    /\ CliFrame

\* lines 147-152 and 209: the loop after a call returned
SendToAllStep ==
    /\ pc = "after_send" /\ argv.form = "all"
    /\ success_count' = CountAfter(success_count, send_ret[1])
    /\ IF LoopContinues(idx, Len(panes), send_ret[1])
       THEN /\ idx' = idx + 1
            /\ target' = panes[idx + 1].pane_id
            /\ ops' = <<>> /\ raised' = FALSE
            /\ pc' = "send_keys"
            /\ UNCHANGED <<out, all_ret, exit_code>>
       ELSE /\ out' = Append(out, Line("stdout", "Message sent to panes",
                                       success_count', Len(panes)))
            /\ all_ret' = Some(AllResult(success_count'))
            /\ exit_code' = IF AllResult(success_count') THEN 0 ELSE 1
            /\ pc' = "done"
            /\ UNCHANGED <<idx, target, ops, raised>>
    /\ UNCHANGED <<panes, queries, sender_info, message, attempts, send_ret, found>>
    /\ CliFrame

\* lines 216-221 and 265-272: main falls off its end (exit 0) after a
\* successful send and exits 1 after a failed one
SingleFinish ==
    /\ pc = "after_send" /\ argv.form \in {"pane", "logical"}
    /\ IF send_ret[1]
       THEN /\ out' = IF argv.form = "logical" /\ sender_info # None
                      THEN out \o <<Line("stdout", "Message sent", 0, 0),
                                    Line("stdout", "From:", 0, 0)>>
                      ELSE Append(out, Line("stdout", "Message sent", 0, 0))
            /\ exit_code' = 0
       ELSE /\ out' = Append(out, Line("stderr", "Failed to send message", 0, 0))
            /\ exit_code' = 1
    /\ pc' = "done"
    /\ UNCHANGED <<panes, queries, sender_info, message, target, idx,
                   success_count, attempts, ops, raised, send_ret, all_ret, found>>
    /\ CliFrame

CliNext ==
    \/ Usage
    \/ PrepareDirect
    \/ ResolveLogical
    \/ PrepareLogical
    \/ SendKeys
    \/ Enter1
    \/ Enter2
    \/ SendReturn
    \/ SendToAllStart
    \/ SendToAllStep
    \/ SingleFinish

Spec == CliInit /\ [][CliNext]_vars

-----------------------------------------------------------------------------
(* Claims about the CLI *)

\* the inventory the multiplexer reports to this invocation
Snapshot == IF q_outcome = "ok" THEN LinePanes(q_stdout) ELSE <<>>

NumOk(as) == Cardinality({i \in 1..Len(as) : as[i].ok})

CallReturned == pc = "after_send" /\ ~raised /\ Len(ops) = 3

\* C1: send_message_to_pane returns (keystroke-send ok) AND (first submit ok
\* OR second submit ok) for every combination of the three exit statuses; a
\* failed keystroke-send gives false, and ok / failed / ok gives true.
C1_ResultIsSendAndEitherSubmit ==
    CallReturned =>
        /\ send_ret = Some((ops[1].rc = 0) /\ ((ops[2].rc = 0) \/ (ops[3].rc = 0)))
        /\ ops[1].rc # 0 => send_ret = Some(FALSE)
        /\ (ops[1].rc = 0 /\ ops[2].rc # 0 /\ ops[3].rc = 0) => send_ret = Some(TRUE)

C1_Witness ==
    /\ CallReturned
    /\ ops[1].rc = 0 /\ ops[2].rc = 1 /\ ops[3].rc = 0
    /\ send_ret = Some(TRUE)

\* C2: send_to_all_panes queries the inventory once and calls
\* send_message_to_pane once for every pane of that snapshot, in the snapshot's
\* order, whatever the earlier results were; the count it prints is the number
\* of calls that returned true and the total is the snapshot's size.
C2_EveryPaneAttemptedOnceInOrder ==
    argv.form = "all" =>
        LET snap == Snapshot IN
        /\ queries <= 1
        /\ Len(attempts) <= Len(snap)
        /\ \A i \in 1..Len(attempts) : attempts[i].pane = snap[i].pane_id
        /\ pc = "done" =>
              /\ queries = 1
              /\ Len(attempts) = Len(snap)
              /\ snap # <<>> =>
                    out[Len(out)] = Line("stdout", "Message sent to panes",
                                         NumOk(attempts), Len(snap))

C2_Witness ==
    /\ argv.form = "all" /\ pc = "done"
    /\ Len(Snapshot) = 3 /\ Len(attempts) = 3
    /\ attempts[1].ok /\ ~attempts[2].ok /\ attempts[3].ok
    /\ out[Len(out)].count = 2 /\ out[Len(out)].total = 3

\* C3 as stated: the value send_to_all_panes returns when every delivery to a
\* non-empty snapshot failed differs from the value it returns for an empty
\* snapshot.
C3_ReturnValueTellsTotalFailureFromEmpty ==
    (argv.form = "all" /\ pc = "done" /\ panes # <<>> /\ success_count = 0)
        => all_ret # Some(AllResultNoPanes)

\* C3 as amended: the value send_to_all_panes returns is the boolean "at least
\* one delivery succeeded", which is false (exit code 1) both for a total failure
\* and for an empty snapshot; the two differ only in what is printed: an empty
\* snapshot prints "No tmux panes found" and no count, a total failure prints the
\* count 0 of N.
C3_OutcomesDifferOnlyInOutput ==
    (argv.form = "all" /\ pc = "done") =>
        LET snap == Snapshot IN
        /\ all_ret = Some(NumOk(attempts) > 0)
        /\ exit_code = IF NumOk(attempts) > 0 THEN 0 ELSE 1
        /\ snap = <<>> =>
              /\ all_ret = Some(FALSE)
              /\ out[Len(out)] = Line("stderr", "No tmux panes found", 0, 0)
              /\ \A i \in 1..Len(out) : out[i].text # "Message sent to panes"
        /\ (snap # <<>> /\ NumOk(attempts) = 0) =>
              /\ all_ret = Some(FALSE)
              /\ out[Len(out)] = Line("stdout", "Message sent to panes", 0, Len(snap))

C3_Witness ==
    /\ argv.form = "all" /\ pc = "done"
    /\ Len(Snapshot) = 2 /\ Len(attempts) = 2 /\ NumOk(attempts) = 0
    /\ all_ret = Some(FALSE) /\ exit_code = 1

\* C7: a send whose address matches no pane of the inventory ends with a
\* non-zero exit code, for the logical form (no pane with that command and
\* path) and for the --pane form (no pane with that id), whatever the
\* send-keys operations report.
C7_UnmatchedAddressExitsNonZero ==
    /\ (/\ pc = "done" /\ argv.form = "logical"
        /\ \A i \in 1..Len(Snapshot) :
              ~(Snapshot[i].command = argv.app_name
                /\ Snapshot[i].path = argv.target_dir))
          => exit_code # 0
    /\ (/\ pc = "done" /\ argv.form = "pane"
        /\ \A i \in 1..Len(Snapshot) : Snapshot[i].pane_id # argv.pane_id)
          => exit_code # 0

\* positions of the snapshot `snap` whose command and path equal the arguments
MatchesIn(snap) == {i \in 1..Len(snap) :
                       /\ snap[i].command = argv.app_name
                       /\ snap[i].path = argv.target_dir}

\* C8: find_agent returns the pane of lowest position in the snapshot whose
\* command and path both equal the arguments, and None exactly when no pane
\* of the snapshot (an empty or failed query included) equals them in both.
C8_FindAgentFirstExactMatch ==
    (argv.form = "logical" /\ pc # "main") =>
        LET snap == Snapshot
            ms == MatchesIn(snap)
        IN
        /\ ms = {} <=> found = None
        /\ ms # {} => found = Some(snap[CHOOSE i \in ms : \A j \in ms : i <= j])
        /\ found # None =>
              /\ found[1].command = argv.app_name
              /\ found[1].path = argv.target_dir

C8_Witness ==
    /\ argv.form = "logical" /\ pc # "main"
    /\ MatchesIn(Snapshot) = {2, 3}
    /\ Snapshot[1].command = argv.app_name
    /\ found = Some(Snapshot[2])

\* C10: a send_message_to_pane call in which nothing raised issued exactly
\* three send-keys operations, all to the given pane: the text, then the
\* submit key, then the submit key again, each one whatever the exit status
\* of the earlier ones; no operation of a call goes to another pane.
C10_ThreeOperationsInOrder ==
    /\ \A i \in 1..Len(ops) : ops[i].pane = target
    /\ (pc = "after_send" /\ ~raised) =>
          /\ Len(ops) = 3
          /\ ops[1].keys = message
          /\ ops[2].keys = <<"C-m">>
          /\ ops[3].keys = <<"C-m">>
          /\ attempts[Len(attempts)].pane = target

C10_Witness ==
    /\ pc = "after_send" /\ ~raised
    /\ Len(ops) = 3
    /\ ops[1].rc = 1 /\ ops[2].rc = 0 /\ ops[3].rc = 1
    /\ ops[1].keys = message /\ message # Body

====
